---- MODULE Spec2Model ----
(***************************************************************************)
(* Model of app.EN.py: the key/model failover dispatcher                   *)
(* generate_content_with_failover and the model selection it performs.     *)
(* Text values (model identifiers, error texts) are sequences of           *)
(* one-character strings, so that Python's substring test `a in b` and     *)
(* str.lower() are computed character by character.                        *)
(***************************************************************************)
EXTENDS Integers, Sequences, FiniteSets, TLC

\* ------------------------------------------------------------------ bounds

\* Longest credential list ALL_KEYS the model draws.
MaxKeys == 2

\* The credentials a secret store may hold (opaque secrets).
KeyPool == {"key1", "key2"}

\* The invocations of generate_content_with_failover that may be in progress
\* (Streamlit runs every browser session's script in its own thread of the
\* same process).  Sequential runs one at a time, Threads runs them together.
Threads == {"A", "B"}
Sequential == {"A"}

\* ------------------------------------------------------------------ text

\* Python's None, kept apart from every text value (no text is <<"None">>:
\* the elements of a text are single characters).
None == <<"None">>

\* "ABCDEFGHIJKLMNOPQRSTUVWXYZ"
UpperCase == <<"A","B","C","D","E","F","G","H","I","J","K","L","M","N","O","P","Q","R","S","T","U","V","W","X","Y","Z">>
\* "abcdefghijklmnopqrstuvwxyz"
LowerCase == <<"a","b","c","d","e","f","g","h","i","j","k","l","m","n","o","p","q","r","s","t","u","v","w","x","y","z">>

\* str.lower() on one character.
LowerChar(c) ==
    IF \E j \in 1..Len(UpperCase) : UpperCase[j] = c
    THEN LowerCase[CHOOSE j \in 1..Len(UpperCase) : UpperCase[j] = c]
    ELSE c

\* str.lower()
Lower(s) == [k \in 1..Len(s) |-> LowerChar(s[k])]

\* Python's `needle in hay` on strings: needle occurs as a contiguous run.
Contains(needle, hay) ==
    \E k \in 0..(Len(hay) - Len(needle)) :
        SubSeq(hay, k + 1, k + Len(needle)) = needle

\* ------------------------------------------------------------------ models

\* "gemini-3-flash-preview"
Gemini3FlashPreview == <<"g","e","m","i","n","i","-","3","-","f","l","a","s","h","-","p","r","e","v","i","e","w">>
\* "gemini-2.5-flash"
Gemini25Flash == <<"g","e","m","i","n","i","-","2",".","5","-","f","l","a","s","h">>
\* "gemini-2.5-flash-lite"
Gemini25FlashLite == <<"g","e","m","i","n","i","-","2",".","5","-","f","l","a","s","h","-","l","i","t","e">>
\* "gemini-2.0-flash"
Gemini20Flash == <<"g","e","m","i","n","i","-","2",".","0","-","f","l","a","s","h">>
\* "gemini-1.5-pro"
Gemini15Pro == <<"g","e","m","i","n","i","-","1",".","5","-","p","r","o">>
\* "gemini-1.5-flash"
Gemini15Flash == <<"g","e","m","i","n","i","-","1",".","5","-","f","l","a","s","h">>

\* PRIORITY LIST (most capable first).
model_priority ==
    << Gemini3FlashPreview, Gemini25Flash, Gemini25FlashLite,
       Gemini20Flash, Gemini15Pro, Gemini15Flash >>

\* The hard-coded choice when nothing on the list is available.
FallbackModel == Gemini15Flash

\* What genai.list_models() may yield: records of a name and the generation
\* methods the model supports.
\* "models/gemini-3-flash-preview"
Name3FlashPreview == <<"m","o","d","e","l","s","/","g","e","m","i","n","i","-","3","-","f","l","a","s","h","-","p","r","e","v","i","e","w">>
\* "models/gemini-2.5-flash"
Name25Flash == <<"m","o","d","e","l","s","/","g","e","m","i","n","i","-","2",".","5","-","f","l","a","s","h">>
\* "models/gemini-2.5-flash-lite"
Name25FlashLite == <<"m","o","d","e","l","s","/","g","e","m","i","n","i","-","2",".","5","-","f","l","a","s","h","-","l","i","t","e">>
\* "models/gemini-2.0-flash-live-001"
Name20FlashLive == <<"m","o","d","e","l","s","/","g","e","m","i","n","i","-","2",".","0","-","f","l","a","s","h","-","l","i","v","e","-","0","0","1">>
\* "models/gemini-1.5-pro"
Name15Pro == <<"m","o","d","e","l","s","/","g","e","m","i","n","i","-","1",".","5","-","p","r","o">>
\* "models/gemini-1.5-flash-8b"
Name15Flash8b == <<"m","o","d","e","l","s","/","g","e","m","i","n","i","-","1",".","5","-","f","l","a","s","h","-","8","b">>
\* "models/gemini-2.5-pro"
Name25Pro == <<"m","o","d","e","l","s","/","g","e","m","i","n","i","-","2",".","5","-","p","r","o">>
\* "models/embedding-001"
NameEmbedding == <<"m","o","d","e","l","s","/","e","m","b","e","d","d","i","n","g","-","0","0","1">>

ModelInfo(n, methods) == [name |-> n, supported_generation_methods |-> methods]

ModelUniverse ==
    { ModelInfo(Name3FlashPreview, {"generateContent", "countTokens"}),
      ModelInfo(Name25Flash, {"generateContent", "countTokens"}),
      ModelInfo(Name25FlashLite, {"generateContent", "countTokens"}),
      ModelInfo(Name20FlashLive, {"bidiGenerateContent"}),
      ModelInfo(Name15Pro, {"generateContent", "countTokens"}),
      ModelInfo(Name15Flash8b, {"generateContent", "countTokens"}),
      ModelInfo(Name25Pro, {"generateContent", "countTokens"}),
      ModelInfo(NameEmbedding, {"embedContent"}) }

\* The listings the dispatcher's runs draw from (a few accounts).
Catalogue ==
    { {},
      { ModelInfo(Name25FlashLite, {"generateContent", "countTokens"}),
        ModelInfo(Name15Pro, {"generateContent", "countTokens"}) },
      { ModelInfo(Name3FlashPreview, {"generateContent", "countTokens"}),
        ModelInfo(Name20FlashLive, {"bidiGenerateContent"}) } }

\* [m.name for m in genai.list_models()
\*         if 'generateContent' in m.supported_generation_methods]
AvailableModels(listed) ==
    { m.name : m \in { x \in listed :
                         "generateContent" \in x.supported_generation_methods } }

\* for target in model_priority: if any(target in m_name ...): sel_model =
\* target; break -- the walk from rank r on; None when the walk runs out.
RECURSIVE FindBest(_, _)
FindBest(available, r) ==
    IF r > Len(model_priority) THEN None
    ELSE IF \E m_name \in available : Contains(model_priority[r], m_name)
         THEN model_priority[r]
         ELSE FindBest(available, r + 1)

\* Variant: the walk without its `break` -- the last match wins.
RECURSIVE FindLast(_, _)
FindLast(available, r) ==
    IF r < 1 THEN None
    ELSE IF \E m_name \in available : Contains(model_priority[r], m_name)
         THEN model_priority[r]
         ELSE FindLast(available, r - 1)

SelectModelNoBreak(available) ==
    LET found == FindLast(available, Len(model_priority))
    IN  IF found = None THEN FallbackModel ELSE found

\* Find best model, then `if not sel_model: sel_model = "gemini-1.5-flash"`.
SelectModel(available) ==
    LET found == FindBest(available, 1)
    IN  IF found = None THEN FallbackModel ELSE found

\* ------------------------------------------------------------------ errors

\* "429"
Text429 == <<"4","2","9">>
\* "quota"
TextQuota == <<"q","u","o","t","a">>
\* "limit"
TextLimit == <<"l","i","m","i","t">>

\* str(e) of the exceptions the outbound calls raise in the model.
\* "429 Too Many Requests"
Err429 == <<"4","2","9"," ","T","o","o"," ","M","a","n","y"," ","R","e","q","u","e","s","t","s">>
\* "Quota exceeded"
ErrQuota == <<"Q","u","o","t","a"," ","e","x","c","e","e","d","e","d">>
\* "RATE LIMIT"
ErrLimit == <<"R","A","T","E"," ","L","I","M","I","T">>
\* "403 Forbidden"
ErrDenied == <<"4","0","3"," ","F","o","r","b","i","d","d","e","n">>
\* "" (an exception raised without a message)
ErrEmpty == <<>>

ErrorTexts == {Err429, ErrQuota, ErrLimit, ErrDenied, ErrEmpty}

\* if "429" in last_error or "quota" in last_error.lower()
\*    or "limit" in last_error.lower(): continue   else: break
IsQuotaError(text) ==
    \/ Contains(Text429, text)
    \/ Contains(TextQuota, Lower(text))
    \/ Contains(TextLimit, Lower(text))

\* ------------------------------------------------------------------ state

VARIABLES
    ALL_KEYS,        \* the process-wide credential list (st.secrets)
    api_key,         \* the key genai.configure() last stored in the genai module
    pc,              \* per invocation: where it stands
    keys_to_try,     \* per invocation: the shuffled copy of ALL_KEYS
    index,           \* per invocation: enumerate()'s position (0-based)
    sel_model,       \* per invocation: the model selected for the current key
    last_error,      \* per invocation: str(e) of the last exception caught
    ret,             \* per invocation: how the call ended (value or exception)
    st_error,        \* per invocation: the st.error() message shown
    tried,           \* history: the keys configured, one per loop iteration
    calls,           \* history: the outbound calls and the key each was made with
    outcomes,        \* history: how each iteration ended (success or str(e))
    listed,          \* model selection alone: a listing list_models() returns
    available_models,\* model selection alone: the usable names of the listing
    selected,        \* model selection alone: the model selected for it
    doc,             \* interpreter: what the raw text was composed of (history)
    full_text,       \* interpreter: the raw text handed to process_response
    report,          \* interpreter: what process_response returned or raised
    scores,          \* calculate_overall alone: the list it is given
    overall,         \* calculate_overall alone: the string it returns
    generation_config, \* gen_config alone: the dict built for a model name
    rendered,        \* rendering: how the pass over an ai message ended
    messages,        \* st.session_state.messages
    submitted,       \* st.session_state.submitted
    topic_input,     \* the task prompt of the submission in progress
    uploaded_file,   \* the image of the submission in progress
    essay_input,     \* the essay of the submission in progress
    stage,           \* where the submit handler stands
    event,           \* history: what the last handler did, and the session before it
    submissions      \* history: the number of valid submissions so far

dispatchVars ==
    << ALL_KEYS, api_key, pc, keys_to_try, index, sel_model, last_error, ret,
       st_error, tried, calls, outcomes >>

selectVars == << listed, available_models, selected >>

interpretVars == << doc, full_text, report, scores, overall >>

sessionVars ==
    << messages, submitted, topic_input, uploaded_file, essay_input, stage,
       event, submissions >>

appVars == << generation_config, rendered, sessionVars >>

vars ==
    << ALL_KEYS, api_key, pc, keys_to_try, index, sel_model, last_error, ret,
       st_error, tried, calls, outcomes, listed, available_models, selected,
       doc, full_text, report, scores, overall, generation_config, rendered,
       messages, submitted, topic_input, uploaded_file, essay_input, stage,
       event, submissions >>

\* All sequences over S of length at most n.
SeqsUpTo(S, n) == UNION { [1..k -> S] : k \in 0..n }

\* The bijections of 1..n onto itself.
Perms(n) == { p \in [1..n -> 1..n] : \A a, b \in 1..n : p[a] = p[b] => a = b }

\* random.shuffle(keys_to_try): every rearrangement of the list is possible.
Shuffles(keys) == { [k \in 1..Len(keys) |-> keys[p[k]]] : p \in Perms(Len(keys)) }

\* No value returned yet / the message not shown yet.
NotReturned == [kind |-> "running", response |-> None, model |-> None]
NoMessage == [shown |-> FALSE, count |-> 0, last |-> <<>>]

\* return response, sel_model
ReturnValue(response, model) ==
    [kind |-> "return", response |-> response, model |-> model]

\* The response object generate_content() hands back.
Response == <<"response">>

\* The locals of an invocation that has not started.
InitDispatch ==
    /\ ALL_KEYS \in SeqsUpTo(KeyPool, MaxKeys)
    /\ api_key = None
    /\ pc = [i \in Threads |-> "idle"]
    /\ keys_to_try = [i \in Threads |-> <<>>]
    /\ index = [i \in Threads |-> 0]
    /\ sel_model = [i \in Threads |-> None]
    /\ last_error = [i \in Threads |-> <<>>]
    /\ ret = [i \in Threads |-> NotReturned]
    /\ st_error = [i \in Threads |-> NoMessage]
    /\ tried = [i \in Threads |-> <<>>]
    /\ calls = [i \in Threads |-> <<>>]
    /\ outcomes = [i \in Threads |-> <<>>]

InitSelectIdle ==
    /\ listed = {}
    /\ available_models = {}
    /\ selected = None

\* process_response and calculate_overall have not been called.
InitInterpretIdle ==
    /\ doc = <<>>
    /\ full_text = <<>>
    /\ report = <<>>
    /\ scores = <<>>
    /\ overall = None

\* No handler of the page has run.
NoEvent == [kind |-> "none", messages |-> <<>>, submitted |-> FALSE]

\* The page's session and the rendering are not part of the run.
InitAppIdle ==
    /\ generation_config = <<>>
    /\ rendered = <<>>
    /\ messages = <<>>
    /\ submitted = FALSE
    /\ topic_input = <<>>
    /\ uploaded_file = None
    /\ essay_input = <<>>
    /\ stage = "idle"
    /\ event = NoEvent
    /\ submissions = 0

Init == InitDispatch /\ InitSelectIdle /\ InitInterpretIdle /\ InitAppIdle

\* ------------------------------------------------------------------ dispatcher

\* The key of the iteration in progress: keys_to_try[index].
current_key(i) == keys_to_try[i][index[i] + 1]

\* Variant: keys_to_try = ALL_KEYS without the copy, so the shuffle
\* rearranges the shared list.
InvokeShufflesInPlace(i) ==
    /\ pc[i] \in {"idle", "done"}
    /\ \E order \in Shuffles(ALL_KEYS) :
           /\ keys_to_try' = [keys_to_try EXCEPT ![i] = order]
           /\ ALL_KEYS' = order
    /\ index' = [index EXCEPT ![i] = 0]
    /\ sel_model' = [sel_model EXCEPT ![i] = None]
    /\ last_error' = [last_error EXCEPT ![i] = <<>>]
    /\ ret' = [ret EXCEPT ![i] = NotReturned]
    /\ st_error' = [st_error EXCEPT ![i] = NoMessage]
    /\ tried' = [tried EXCEPT ![i] = <<>>]
    /\ calls' = [calls EXCEPT ![i] = <<>>]
    /\ outcomes' = [outcomes EXCEPT ![i] = <<>>]
    /\ pc' = [pc EXCEPT ![i] = "loop"]
    /\ UNCHANGED api_key
    /\ UNCHANGED << selectVars, interpretVars, appVars >>

\* def generate_content_with_failover(prompt, image): keys_to_try =
\* list(ALL_KEYS); random.shuffle(keys_to_try); last_error = "".
\* A new call starts with fresh locals.
StartCall(i) ==
    /\ pc[i] \in {"idle", "done"}
    /\ \E order \in Shuffles(ALL_KEYS) :
           keys_to_try' = [keys_to_try EXCEPT ![i] = order]
    /\ index' = [index EXCEPT ![i] = 0]
    /\ sel_model' = [sel_model EXCEPT ![i] = None]
    /\ last_error' = [last_error EXCEPT ![i] = <<>>]
    /\ ret' = [ret EXCEPT ![i] = NotReturned]
    /\ st_error' = [st_error EXCEPT ![i] = NoMessage]
    /\ tried' = [tried EXCEPT ![i] = <<>>]
    /\ calls' = [calls EXCEPT ![i] = <<>>]
    /\ outcomes' = [outcomes EXCEPT ![i] = <<>>]
    /\ pc' = [pc EXCEPT ![i] = "loop"]
    /\ UNCHANGED << ALL_KEYS, api_key >>

\* The call on its own: nothing of the page changes with it.
Invoke(i) ==
    /\ StartCall(i)
    /\ UNCHANGED << selectVars, interpretVars, appVars >>

\* for index, current_key in enumerate(keys_to_try): a key is left;
\* genai.configure(api_key=current_key) stores it in the genai module.
Configure(i) ==
    /\ pc[i] = "loop"
    /\ index[i] < Len(keys_to_try[i])
    /\ Len(tried[i]) <= MaxKeys
    /\ api_key' = current_key(i)
    /\ tried' = [tried EXCEPT ![i] = Append(@, current_key(i))]
    /\ pc' = [pc EXCEPT ![i] = "list"]
    /\ UNCHANGED << ALL_KEYS, keys_to_try, index, sel_model, last_error, ret,
                    st_error, calls, outcomes >>
    /\ UNCHANGED << selectVars, interpretVars, appVars >>

\* The for loop has run out of keys: fall through to the lines after it.
LoopExhausted(i) ==
    /\ pc[i] = "loop"
    /\ index[i] >= Len(keys_to_try[i])
    /\ pc' = [pc EXCEPT ![i] = "report"]
    /\ UNCHANGED << ALL_KEYS, api_key, keys_to_try, index, sel_model, last_error,
                    ret, st_error, tried, calls, outcomes >>
    /\ UNCHANGED << selectVars, interpretVars, appVars >>

\* "thinking"
TextThinking == <<"t","h","i","n","k","i","n","g">>

\* Variant: the test for "thinking" without .lower().
gen_config_as_written(model) ==
    LET base == [ key \in { "temperature", "top_p", "top_k", "max_output_tokens" } |->
                    CASE key = "temperature" -> <<"0",".","3">>
                      [] key = "top_p" -> <<"0",".","9","5">>
                      [] key = "top_k" -> <<"6","4">>
                      [] key = "max_output_tokens" -> <<"3","2","0","0","0">> ]
    IN  IF Contains(TextThinking, model)
        THEN base @@ ("thinking_config" :> <<"include_thoughts", "thinking_budget">>)
        ELSE base

\* Generation Config: the four settings, and thinking_config when
\* "thinking" in sel_model.lower().
gen_config(model) ==
    LET base == [ key \in { "temperature", "top_p", "top_k", "max_output_tokens" } |->
                    CASE key = "temperature" -> <<"0",".","3">>
                      [] key = "top_p" -> <<"0",".","9","5">>
                      [] key = "top_k" -> <<"6","4">>
                      [] key = "max_output_tokens" -> <<"3","2","0","0","0">> ]
    IN  IF Contains(TextThinking, Lower(model))
        THEN base @@ ("thinking_config" :> <<"include_thoughts", "thinking_budget">>)
        ELSE base

\* An outbound call of invocation i goes out with the key the genai module
\* holds at that moment; a generation call carries gen_config.
CallMade(i, op, answer) ==
    calls' = [calls EXCEPT ![i] =
                 Append(@, [op |-> op, key |-> api_key, own |-> current_key(i),
                            answer |-> answer,
                            config |-> IF op = "generate_content"
                                       THEN gen_config(sel_model[i]) ELSE <<>>])]

\* Variant: every error moves on to the next key (no break).
ExceptAlwaysContinues(i, e) ==
    /\ last_error' = [last_error EXCEPT ![i] = e]
    /\ outcomes' = [outcomes EXCEPT ![i] = Append(@, [ok |-> FALSE, text |-> e])]
    /\ index' = [index EXCEPT ![i] = @ + 1]
    /\ pc' = [pc EXCEPT ![i] = "loop"]
    /\ ret' = ret

\* Variant: last_error keeps the first error text seen.
ExceptKeepsFirstError(i, e) ==
    /\ last_error' = [last_error EXCEPT ![i] = IF @ = <<>> THEN e ELSE @]
    /\ outcomes' = [outcomes EXCEPT ![i] = Append(@, [ok |-> FALSE, text |-> e])]
    /\ IF IsQuotaError(e)
       THEN /\ index' = [index EXCEPT ![i] = @ + 1]
            /\ pc' = [pc EXCEPT ![i] = "loop"]
       ELSE /\ index' = index
            /\ pc' = [pc EXCEPT ![i] = "report"]
    /\ ret' = ret

\* Variant: an error that is not quota-style is raised again to the caller.
ExceptReraises(i, e) ==
    /\ last_error' = [last_error EXCEPT ![i] = e]
    /\ outcomes' = [outcomes EXCEPT ![i] = Append(@, [ok |-> FALSE, text |-> e])]
    /\ index' = [index EXCEPT ![i] = IF IsQuotaError(e) THEN @ + 1 ELSE @]
    /\ IF IsQuotaError(e)
       THEN /\ pc' = [pc EXCEPT ![i] = "loop"]
            /\ ret' = ret
       ELSE /\ pc' = [pc EXCEPT ![i] = "done"]
            /\ ret' = [ret EXCEPT ![i] =
                          [kind |-> "raise", response |-> None, model |-> None]]

\* Variant: a quota-style error tries the same key again.
ExceptRetriesSameKey(i, e) ==
    /\ last_error' = [last_error EXCEPT ![i] = e]
    /\ outcomes' = [outcomes EXCEPT ![i] = Append(@, [ok |-> FALSE, text |-> e])]
    /\ index' = index
    /\ pc' = [pc EXCEPT ![i] = IF IsQuotaError(e) THEN "loop" ELSE "report"]
    /\ ret' = ret

\* except Exception as e: last_error = str(e); a quota-style text moves on
\* to the next key (continue), any other text leaves the loop (break).
Except(i, e) ==
    /\ last_error' = [last_error EXCEPT ![i] = e]
    /\ outcomes' = [outcomes EXCEPT ![i] = Append(@, [ok |-> FALSE, text |-> e])]
    /\ IF IsQuotaError(e)
       THEN /\ index' = [index EXCEPT ![i] = @ + 1]
            /\ pc' = [pc EXCEPT ![i] = "loop"]
       ELSE /\ index' = index
            /\ pc' = [pc EXCEPT ![i] = "report"]
    /\ ret' = ret

\* genai.list_models() answers; the usable names are kept and the best model
\* of the priority list is selected.
ListModels(i, listings) ==
    /\ pc[i] = "list"
    /\ \E listing \in listings :
           /\ CallMade(i, "list_models", listing)
           /\ sel_model' = [sel_model EXCEPT ![i] =
                                SelectModel(AvailableModels(listing))]
    /\ pc' = [pc EXCEPT ![i] = "generate"]
    /\ UNCHANGED << ALL_KEYS, api_key, keys_to_try, index, last_error, ret,
                    st_error, tried, outcomes >>
    /\ UNCHANGED << selectVars, interpretVars, appVars >>

\* genai.list_models() raises.
ListModelsRaises(i, texts) ==
    /\ pc[i] = "list"
    /\ CallMade(i, "list_models", {})
    /\ \E e \in texts : Except(i, e)
    /\ UNCHANGED << ALL_KEYS, api_key, keys_to_try, sel_model, st_error, tried >>
    /\ UNCHANGED << selectVars, interpretVars, appVars >>

\* Variant: return response, "gemini-1.5-flash".
GenerateReturnsFallback(i) ==
    /\ pc[i] = "generate"
    /\ CallMade(i, "generate_content", {})
    /\ outcomes' = [outcomes EXCEPT ![i] = Append(@, [ok |-> TRUE, text |-> <<>>])]
    /\ ret' = [ret EXCEPT ![i] = ReturnValue(Response, FallbackModel)]
    /\ pc' = [pc EXCEPT ![i] = "done"]
    /\ UNCHANGED << ALL_KEYS, api_key, keys_to_try, index, sel_model, last_error,
                    st_error, tried >>
    /\ UNCHANGED << selectVars, interpretVars, appVars >>

\* Variant: a count_tokens() call goes out before the generation call.
GenerateCountsTokensFirst(i) ==
    /\ pc[i] = "generate"
    /\ calls' = [calls EXCEPT ![i] =
                    Append(Append(@, [op |-> "count_tokens", key |-> api_key,
                                      own |-> current_key(i), answer |-> {},
                                      config |-> <<>>]),
                           [op |-> "generate_content", key |-> api_key,
                            own |-> current_key(i), answer |-> {},
                            config |-> gen_config(sel_model[i])])]
    /\ outcomes' = [outcomes EXCEPT ![i] = Append(@, [ok |-> TRUE, text |-> <<>>])]
    /\ ret' = [ret EXCEPT ![i] = ReturnValue(Response, sel_model[i])]
    /\ pc' = [pc EXCEPT ![i] = "done"]
    /\ UNCHANGED << ALL_KEYS, api_key, keys_to_try, index, sel_model, last_error,
                    st_error, tried >>
    /\ UNCHANGED << selectVars, interpretVars, appVars >>

\* temp_model.generate_content(...) answers: return response, sel_model.
Generate(i) ==
    /\ pc[i] = "generate"
    /\ CallMade(i, "generate_content", {})
    /\ outcomes' = [outcomes EXCEPT ![i] = Append(@, [ok |-> TRUE, text |-> <<>>])]
    /\ ret' = [ret EXCEPT ![i] = ReturnValue(Response, sel_model[i])]
    /\ pc' = [pc EXCEPT ![i] = "done"]
    /\ UNCHANGED << ALL_KEYS, api_key, keys_to_try, index, sel_model, last_error,
                    st_error, tried >>
    /\ UNCHANGED << selectVars, interpretVars, appVars >>

\* temp_model.generate_content(...) raises.
GenerateRaises(i, texts) ==
    /\ pc[i] = "generate"
    /\ CallMade(i, "generate_content", {})
    /\ \E e \in texts : Except(i, e)
    /\ UNCHANGED << ALL_KEYS, api_key, keys_to_try, sel_model, st_error, tried >>
    /\ UNCHANGED << selectVars, interpretVars, appVars >>

\* Variant: the message reports enumerate()'s index in place of the length.
ReportShowsIndex(i) ==
    /\ pc[i] = "report"
    /\ st_error' = [st_error EXCEPT ![i] =
                       [shown |-> TRUE,
                        count |-> IF index[i] >= Len(keys_to_try[i])
                                  THEN Len(keys_to_try[i]) - 1
                                  ELSE index[i],
                        last |-> last_error[i]]]
    /\ ret' = [ret EXCEPT ![i] = ReturnValue(None, None)]
    /\ pc' = [pc EXCEPT ![i] = "done"]
    /\ UNCHANGED << ALL_KEYS, api_key, keys_to_try, index, sel_model, last_error,
                    tried, calls, outcomes >>
    /\ UNCHANGED << selectVars, interpretVars, appVars >>

\* st.error(f"All {len(keys_to_try)} Keys have exceeded their quota. Last
\* error: {last_error}"); return None, None
Report(i) ==
    /\ pc[i] = "report"
    /\ st_error' = [st_error EXCEPT ![i] =
                       [shown |-> TRUE, count |-> Len(keys_to_try[i]),
                        last |-> last_error[i]]]
    /\ ret' = [ret EXCEPT ![i] = ReturnValue(None, None)]
    /\ pc' = [pc EXCEPT ![i] = "done"]
    /\ UNCHANGED << ALL_KEYS, api_key, keys_to_try, index, sel_model, last_error,
                    tried, calls, outcomes >>
    /\ UNCHANGED << selectVars, interpretVars, appVars >>

\* The steps of an invocation once it has been called; the service answers
\* list_models() with one of `listings` and raises one of `texts`.
Run(i, listings, texts) ==
    \/ Configure(i)
    \/ LoopExhausted(i)
    \/ ListModels(i, listings)
    \/ ListModelsRaises(i, texts)
    \/ Generate(i)
    \/ GenerateRaises(i, texts)
    \/ Report(i)

Next == \E i \in Sequential : Invoke(i) \/ Run(i, Catalogue, ErrorTexts)

\* One invocation at a time.
Spec == Init /\ [][Next]_vars

\* Python runs a call that has started to its end: every step that is
\* enabled is eventually taken (the outbound calls return or raise).
FairSpec == Spec /\ \A i \in Sequential : WF_vars(Run(i, Catalogue, ErrorTexts))

\* Two sessions' invocations in the same process, interleaved at the
\* accesses to the genai module.  The service's answers are drawn from one
\* listing, one quota-style error and one other error.
ConcCatalogue ==
    { { ModelInfo(Name25FlashLite, {"generateContent", "countTokens"}),
        ModelInfo(Name15Pro, {"generateContent", "countTokens"}) } }

ConcErrorTexts == {Err429, ErrDenied}

NextConc ==
    \E i \in Threads : Invoke(i) \/ Run(i, ConcCatalogue, ConcErrorTexts)

SpecConc == Init /\ [][NextConc]_vars

\* ------------------------------------------------------------------ selection

\* The model selection on its own, for every listing over ModelUniverse.
InitSelect ==
    /\ InitDispatch
    /\ ALL_KEYS = <<>>
    /\ listed \in SUBSET ModelUniverse
    /\ available_models = {}
    /\ selected = None
    /\ InitInterpretIdle
    /\ InitAppIdle

\* available_models = [...]; the walk down model_priority; the fallback.
SelectStep ==
    /\ selected = None
    /\ available_models' = AvailableModels(listed)
    /\ selected' = SelectModel(AvailableModels(listed))
    /\ UNCHANGED listed
    /\ UNCHANGED << dispatchVars, interpretVars, appVars >>

SpecSelect == InitSelect /\ [][SelectStep]_vars

\* ------------------------------------------------------------------ generation config

\* The model names the config is built for: an entry of the priority list,
\* then nothing or a marker, then nothing or "-exp".
NameMarkers ==
    { <<>>, <<"-","t","h","i","n","k","i","n","g">>,
      <<"-","T","h","i","n","k","i","n","g">>,
      <<"-","T","H","I","N","K","I","N","G">>,
      <<"-","t","h","i","n","k","e","r">>, <<"-","t","h","i","n","k","-","i","n","g">> }

ModelNames ==
    { model_priority[r] \o marker \o suffix :
        r \in 1..Len(model_priority), marker \in NameMarkers,
        suffix \in { <<>>, <<"-","e","x","p">> } }

\* The building of gen_config on its own, for every name of ModelNames.
InitConfig ==
    /\ InitDispatch
    /\ ALL_KEYS = <<>>
    /\ listed = {}
    /\ available_models = {}
    /\ selected \in ModelNames
    /\ InitInterpretIdle
    /\ InitAppIdle

\* gen_config = {...}; if "thinking" in sel_model.lower(): ...
BuildConfig ==
    /\ generation_config = <<>>
    /\ generation_config' = gen_config(selected)
    /\ UNCHANGED << dispatchVars, selectVars, interpretVars, rendered, sessionVars >>

SpecConfig == InitConfig /\ [][BuildConfig]_vars

\* ------------------------------------------------------------------ interpreter: text

\* A raw text is a sequence of characters and of lexemes.  A lexeme (a string
\* longer than one character) stands for a run of text that holds no
\* backtick, no white space at its ends and no digit: a score label, a word,
\* or the text of a JSON document.

\* Python's \s and str.strip(): white space.
IsSpace(c) == c \in {" ", "\n", "\t", "\r"}

\* [\x00-\x1F\x7F-\x9F]: control characters (a blank is not one).
IsControl(c) == c \in {"\n", "\t", "\r"}

\* "0123456789"
DigitChars == <<"0","1","2","3","4","5","6","7","8","9">>

\* \d
IsDigit(c) == \E k \in 1..Len(DigitChars) : DigitChars[k] = c

DigitValue(c) == (CHOOSE k \in 1..Len(DigitChars) : DigitChars[k] = c) - 1

SetMin(S) == CHOOSE x \in S : \A y \in S : x <= y
SetMax(S) == CHOOSE x \in S : \A y \in S : x >= y

\* str.strip()
Strip(s) ==
    LET keep == { k \in 1..Len(s) : ~IsSpace(s[k]) }
    IN  IF keep = {} THEN <<>> ELSE SubSeq(s, SetMin(keep), SetMax(keep))

\* re.sub(r'[\x00-\x1F\x7F-\x9F]', '', content)
RemoveControl(s) == SelectSeq(s, LAMBDA c : ~IsControl(c))

\* The backtick character (written as an apostrophe: a TLA+ string cannot
\* hold a backtick; no text of the model holds an apostrophe).
Backtick == "'"

\* The opening marker: three backticks and "json".
OpenMarker == << Backtick, Backtick, Backtick, "j", "s", "o", "n" >>
\* The closing marker: three backticks.
Fence == << Backtick, Backtick, Backtick >>

\* pat occurs in s at position k.
OccursAt(s, pat, k) ==
    /\ k >= 1
    /\ k + Len(pat) - 1 <= Len(s)
    /\ SubSeq(s, k, k + Len(pat) - 1) = pat

\* The positions where pat occurs in s.
Occurrences(s, pat) == { k \in 1..Len(s) : OccursAt(s, pat, k) }

\* text.split(sep)[0]: the text before the first occurrence of sep.
SplitFirst(s, sep) ==
    IF Occurrences(s, sep) = {} THEN s
    ELSE SubSeq(s, 1, SetMin(Occurrences(s, sep)) - 1)

\* re.search(<opening marker>\s*([\s\S]*?)\s*<fence>, text): the leftmost opening
\* marker that a fence follows; the lazy group ends before the first such
\* fence, and the \s* on either side keep white space out of the group.
FenceStarts(text) ==
    { i \in Occurrences(text, OpenMarker) :
        \E j \in Occurrences(text, Fence) : j >= i + Len(OpenMarker) }

MatchGroup(text) ==
    LET i == SetMin(FenceStarts(text))
        j == SetMin({ q \in Occurrences(text, Fence) : q >= i + Len(OpenMarker) })
    IN  Strip(SubSeq(text, i + Len(OpenMarker), j - 1))

\* def clean_json(text): the cleaned content of the block, None without one.
clean_json(text) ==
    IF FenceStarts(text) = {} THEN None
    ELSE Strip(RemoveControl(MatchGroup(text)))

\* Python's truth of "if json_str": neither None nor the empty string.
Truthy(json_str) == json_str # None /\ json_str # <<>>

\* ------------------------------------------------------------------ interpreter: numbers

\* The text is \d+ or \d+\.\d* with at most two decimals: what float()
\* accepts among the texts of the model.
IsDecimalText(t) ==
    /\ Len(t) >= 1
    /\ IsDigit(t[1])
    /\ \A k \in 1..Len(t) : IsDigit(t[k]) \/ t[k] = "."
    /\ Cardinality({ k \in 1..Len(t) : t[k] = "." }) <= 1
    /\ \A k \in 1..Len(t) : t[k] = "." => Len(t) - k <= 2

\* The value of a run of digits.
RECURSIVE DigitsValue(_)
DigitsValue(t) ==
    IF t = <<>> THEN 0
    ELSE 10 * DigitsValue(SubSeq(t, 1, Len(t) - 1)) + DigitValue(t[Len(t)])

\* float(text), in hundredths (an exact value: the texts of the model are
\* the decimals with at most two places).
Hundredths(t) ==
    LET dots == { k \in 1..Len(t) : t[k] = "." }
        whole == IF dots = {} THEN t ELSE SubSeq(t, 1, SetMin(dots) - 1)
        frac == IF dots = {} THEN <<>> ELSE SubSeq(t, SetMin(dots) + 1, Len(t))
    IN  100 * DigitsValue(whole)
        + (IF Len(frac) = 0 THEN 0
           ELSE IF Len(frac) = 1 THEN 10 * DigitsValue(frac)
           ELSE DigitsValue(frac))

\* str(n) of an int n >= 0.
RECURSIVE IntText(_)
IntText(n) ==
    IF n < 10 THEN << DigitChars[n + 1] >>
    ELSE IntText(n \div 10) \o << DigitChars[(n % 10) + 1] >>

\* ------------------------------------------------------------------ interpreter: JSON

\* A Python value that json.loads() yields or that the report holds.
PyNull == [t |-> "null", text |-> <<>>, fields |-> <<>>]
PyNum(text) == [t |-> "number", text |-> text, fields |-> <<>>]
PyStr(text) == [t |-> "string", text |-> text, fields |-> <<>>]
PyList(items) == [t |-> "array", text |-> <<>>, fields |-> items]
PyDict(fields) == [t |-> "object", text |-> <<>>, fields |-> fields]

\* The failure of json.loads(): json.JSONDecodeError.
DecodeError == [t |-> "JSONDecodeError", text |-> <<>>, fields |-> <<>>]

\* dict.get(key, default)
Get(d, key, default) ==
    IF key \in DOMAIN d.fields THEN d.fields[key] ELSE default

\* str(value): the text of a number or a string, "None", "[]" or "{}" (the
\* lists and dicts that reach str() in the model are empty).
Str(v) ==
    CASE v.t = "number" -> v.text
      [] v.t = "string" -> v.text
      [] v.t = "null" -> <<"N","o","n","e">>
      [] v.t = "array" -> <<"[","]">>
      [] v.t = "object" -> <<"{","}">>

\* float(value) succeeds: a number, or a string that reads as a decimal.
FloatOk(v) ==
    \/ v.t = "number"
    \/ v.t = "string" /\ IsDecimalText(v.text)

\* json.loads(): the documents of the model.  A lexeme "<json:...>" stands
\* for the text of one valid JSON document; the value it parses to is listed
\* here.
ErrorRecord ==
    PyDict("category" :> PyStr(<<"Grammar">>) @@ "type" :> PyStr(<<"Tense">>)
           @@ "impact_level" :> PyStr(<<"High">>)
           @@ "explanation" :> PyStr(<<"why">>)
           @@ "original" :> PyStr(<<"was go">>)
           @@ "correction" :> PyStr(<<"went">>))

DocNames ==
    { "<json:full>", "<json:empty-object>", "<json:partial>", "<json:odd-types>",
      "<json:null-fields>", "<json:array>", "<json:null>", "<json:string>",
      "<json:sparse-error>", "<json:sparse-revised>", "<json:sparse-export>" }

JsonDocument(name) ==
    CASE name = "<json:full>" ->
           PyDict("original_score" :>
                      PyDict("task_achievement" :> PyNum(<<"8">>)
                             @@ "cohesion_coherence" :> PyNum(<<"8">>)
                             @@ "lexical_resource" :> PyNum(<<"8",".","5">>)
                             @@ "grammatical_range" :> PyNum(<<"8">>)
                             @@ "overall" :> PyNum(<<"9">>))
                  @@ "errors" :> PyList(<< ErrorRecord >>)
                  @@ "annotated_essay" :> PyStr(<<"essay">>)
                  @@ "revised_score" :>
                      PyDict("task_achievement" :> PyNum(<<"9">>)
                             @@ "overall" :> PyNum(<<"9">>)))
      [] name = "<json:empty-object>" -> PyDict(<<>>)
      [] name = "<json:partial>" ->
           PyDict("original_score" :>
                      PyDict("cohesion_coherence" :> PyNull
                             @@ "lexical_resource" :> PyStr(<<"N","/","A">>)
                             @@ "grammatical_range" :> PyNum(<<"5",".","5">>)))
      [] name = "<json:odd-types>" ->
           PyDict("original_score" :>
                      PyDict("task_achievement" :> PyStr(<<"7",".","0">>)
                             @@ "cohesion_coherence" :> PyList(<<>>)
                             @@ "lexical_resource" :> PyNum(<<"5">>)
                             @@ "grammatical_range" :> PyStr(<<"-">>))
                  @@ "errors" :> PyList(<<>>))
      [] name = "<json:null-fields>" ->
           PyDict("original_score" :> PyNull @@ "errors" :> PyNull
                  @@ "annotated_essay" :> PyNull @@ "revised_score" :> PyNull)
      [] name = "<json:sparse-error>" ->
           PyDict("errors" :>
                      PyList(<< PyDict("category" :> PyStr(<<"Grammar">>)
                                       @@ "original" :> PyStr(<<"was go">>)) >>))
      [] name = "<json:sparse-revised>" ->
           PyDict("revised_score" :> PyDict("overall" :> PyStr(<<"N","/","A">>)))
      [] name = "<json:sparse-export>" ->
           PyDict("errors" :>
                      PyList(<< PyDict("category" :> PyStr(<<"Coherence">>)) >>)
                  @@ "revised_score" :>
                      PyDict("task_achievement" :> PyNum(<<"7">>)))
      [] name = "<json:array>" -> PyList(<<>>)
      [] name = "<json:null>" -> PyNull
      [] name = "<json:string>" -> PyStr(<<"text">>)

\* The text is a JSON number: digits, then optionally a point and digits
\* (no leading zero).
IsJsonNumber(t) ==
    /\ IsDecimalText(t)
    /\ t[Len(t)] # "."
    /\ (Len(t) > 1 /\ t[1] = "0") => t[2] = "."

\* json.loads(json_str): the value, or DecodeError.
JsonLoads(json_str) ==
    IF Len(json_str) = 1 /\ json_str[1] \in DocNames THEN JsonDocument(json_str[1])
    ELSE IF IsJsonNumber(json_str) THEN PyNum(json_str)
    ELSE DecodeError

\* ------------------------------------------------------------------ interpreter: scores

\* "-"
Dash == <<"-">>

\* The keys of originalScore, in the order of the patterns dict.
ScoreKeys ==
    << "task_achievement", "cohesion_coherence", "lexical_resource",
       "grammatical_range" >>

\* The label each pattern looks for, as one lexeme: e.g. the run of text
\* that Task\s+Achievement\s*Score matches.
ScoreLabel(key) ==
    CASE key = "task_achievement" -> "Task Achievement Score"
      [] key = "cohesion_coherence" -> "Coherence & Cohesion Score"
      [] key = "lexical_resource" -> "Lexical Resource Score"
      [] key = "grammatical_range" -> "Grammatical Range & Accuracy Score"

\* The last position of the run of digits that starts at d (d - 1 when
\* there is no digit at d).
DigitRunEnd(text, d) ==
    SetMax({ e \in (d - 1)..Len(text) : \A k \in d..e : IsDigit(text[k]) })

\* (\d+\.?\d*) at position d: digits, an optional point, digits.
NumberAt(text, d) ==
    LET e1 == DigitRunEnd(text, d)
        e2 == IF e1 < Len(text) /\ text[e1 + 1] = "." THEN e1 + 1 ELSE e1
    IN  SubSeq(text, d, DigitRunEnd(text, e2 + 1))

\* The positions of the label from which a digit follows (.*? with DOTALL
\* reaches over anything, line breaks included).
LabelStarts(text, key) ==
    { k \in 1..Len(text) :
        /\ text[k] = ScoreLabel(key)
        /\ \E d \in (k + 1)..Len(text) : IsDigit(text[d]) }

\* Variant: a criterion without a score line reads as 0.
SearchScoreDefault(text, key) ==
    IF LabelStarts(text, key) = {} THEN <<"0">>
    ELSE LET k == SetMin(LabelStarts(text, key))
             d == SetMin({ q \in (k + 1)..Len(text) : IsDigit(text[q]) })
         IN  NumberAt(text, d)

\* re.search(regex, markdown_part, re.IGNORECASE | re.DOTALL): group(1) of
\* the leftmost match, None without a match.
SearchScore(text, key) ==
    IF LabelStarts(text, key) = {} THEN None
    ELSE LET k == SetMin(LabelStarts(text, key))
             d == SetMin({ q \in (k + 1)..Len(text) : IsDigit(text[q]) })
         IN  NumberAt(text, d)

\* sum(valid_scores), in hundredths.
RECURSIVE SumHundredths(_)
SumHundredths(vs) ==
    IF vs = <<>> THEN 0
    ELSE Hundredths(vs[1].text) + SumHundredths(Tail(vs))

\* Variant: a fractional part of exactly 0.25 rounds down.
RoundBandQuarterDown(sum, n) ==
    LET unit == 100 * n
        whole == sum \div unit
        rest == sum % unit
    IN  IF 4 * rest <= unit THEN IntText(whole)
        ELSE IF 4 * rest < 3 * unit THEN IntText(whole) \o <<".","5">>
        ELSE IntText(whole + 1) \o <<".","0">>

\* Variant: a fractional part of exactly 0.25 rounds up to the next whole.
RoundBandQuarterUp(sum, n) ==
    LET unit == 100 * n
        whole == sum \div unit
        rest == sum % unit
    IN  IF 4 * rest < unit THEN IntText(whole)
        ELSE IF 4 * rest > unit /\ 4 * rest < 3 * unit
        THEN IntText(whole) \o <<".","5">>
        ELSE IntText(whole + 1) \o <<".","0">>

\* IELTS Rounding Rules on avg = sum / n, with sum in hundredths: int(avg)
\* and decimal = avg - int(avg) compared with 0.25 and 0.75; str(final).
RoundBand(sum, n) ==
    LET unit == 100 * n
        whole == sum \div unit
        rest == sum % unit
    IN  IF 4 * rest < unit THEN IntText(whole)
        ELSE IF 4 * rest < 3 * unit THEN IntText(whole) \o <<".","5">>
        ELSE IntText(whole + 1) \o <<".","0">>

\* Variant: three valid scores are enough for an overall.
calculate_overall_of_three(given) ==
    LET valid_scores == SelectSeq(given, FloatOk)
    IN  IF Len(valid_scores) < 3 THEN Dash
        ELSE RoundBand(SumHundredths(valid_scores), Len(valid_scores))

\* def calculate_overall(scores)
calculate_overall(given) ==
    LET valid_scores == SelectSeq(given, FloatOk)
    IN  IF Len(valid_scores) < 4 THEN Dash
        ELSE RoundBand(SumHundredths(valid_scores), Len(valid_scores))

\* ------------------------------------------------------------------ interpreter: process_response

\* data before anything is read: the defaults.
DefaultScores ==
    [ key \in { ScoreKeys[k] : k \in 1..Len(ScoreKeys) } \cup {"overall"} |-> Dash ]

DefaultData ==
    [ errors |-> PyList(<<>>), annotatedEssay |-> PyNull, revisedScore |-> PyNull,
      originalScore |-> DefaultScores ]

\* What a call of process_response comes to: it returns (markdown_part,
\* data), or an exception leaves it.
Returns(markdown_part, data) ==
    [ kind |-> "return", markdown_part |-> markdown_part, data |-> data,
      error |-> "" ]
Raises(error) ==
    [ kind |-> "raise", markdown_part |-> <<>>, data |-> DefaultData,
      error |-> error ]

\* Variant: the text is cut at the opening marker whether or not a block
\* was found.
MarkdownPartAlwaysCut(text) == Strip(SplitFirst(text, OpenMarker))

\* The narrative: the text before the first opening marker, stripped, when
\* json_str is truthy; the full text otherwise.
MarkdownPart(text) ==
    IF Truthy(clean_json(text)) THEN Strip(SplitFirst(text, OpenMarker))
    ELSE text

\* Variant: the score lines are looked for in the full text.
ScoreForFullText(text, key) ==
    LET json_str == clean_json(text)
        match == SearchScore(text, key)
        parsed == JsonLoads(json_str)
        inner == Get(parsed, "original_score", PyDict(<<>>))
        val == Get(inner, key, PyStr(Dash))
    IN  IF match # None
        THEN [ score |-> match, found |-> << PyStr(match) >> ]
        ELSE IF Truthy(json_str) /\ parsed.t = "object" /\ inner.t = "object"
        THEN [ score |-> Str(val),
               found |-> IF Str(val) # Dash THEN << val >> ELSE <<>> ]
        ELSE [ score |-> Dash, found |-> <<>> ]

\* Variant: the block's original_score comes first, the narrative second.
ScoreForBlockFirst(text, key) ==
    LET json_str == clean_json(text)
        match == SearchScore(MarkdownPart(text), key)
        parsed == JsonLoads(json_str)
        inner == Get(parsed, "original_score", PyDict(<<>>))
        val == Get(inner, key, PyStr(Dash))
    IN  IF Truthy(json_str) /\ parsed.t = "object" /\ inner.t = "object"
           /\ Str(val) # Dash
        THEN [ score |-> Str(val), found |-> << val >> ]
        ELSE IF match # None
        THEN [ score |-> match, found |-> << PyStr(match) >> ]
        ELSE [ score |-> Dash, found |-> <<>> ]

\* The loop body for one key: the score the narrative states, else the
\* entry of original_score in the block.  found is what the pass appends
\* to found_scores.
ScoreFor(text, key) ==
    LET json_str == clean_json(text)
        match == SearchScore(MarkdownPart(text), key)
        parsed == JsonLoads(json_str)
        inner == Get(parsed, "original_score", PyDict(<<>>))
        val == Get(inner, key, PyStr(Dash))
    IN  IF match # None
        THEN [ score |-> match, found |-> << PyStr(match) >> ]
        ELSE IF Truthy(json_str) /\ parsed.t = "object" /\ inner.t = "object"
        THEN [ score |-> Str(val),
               found |-> IF Str(val) # Dash THEN << val >> ELSE <<>> ]
        ELSE [ score |-> Dash, found |-> <<>> ]

\* Variant: the overall the block states is appended to found_scores.
RECURSIVE FoundScoresWithOverall(_, _)
FoundScoresWithOverall(text, k) ==
    IF k > Len(ScoreKeys)
    THEN LET parsed == JsonLoads(clean_json(text))
             inner == Get(parsed, "original_score", PyDict(<<>>))
         IN  IF Truthy(clean_json(text)) /\ parsed.t = "object"
                /\ inner.t = "object" /\ "overall" \in DOMAIN inner.fields
             THEN << inner.fields["overall"] >>
             ELSE <<>>
    ELSE ScoreFor(text, ScoreKeys[k]).found \o FoundScoresWithOverall(text, k + 1)

RECURSIVE FoundScores(_, _)
FoundScores(text, k) ==
    IF k > Len(ScoreKeys) THEN <<>>
    ELSE ScoreFor(text, ScoreKeys[k]).found \o FoundScores(text, k + 1)

\* def process_response(full_text)
process_response(text) ==
    LET json_str == clean_json(text)
        parsed == JsonLoads(json_str)
        loaded == Truthy(json_str) /\ parsed.t # "JSONDecodeError"
        found_scores == FoundScores(text, 1)
        originalScore ==
            [ key \in DOMAIN DefaultScores |->
                IF key = "overall"
                THEN IF found_scores # <<>> THEN calculate_overall(found_scores)
                     ELSE Dash
                ELSE ScoreFor(text, key).score ]
    IN  IF loaded /\ parsed.t # "object"
        THEN Raises("AttributeError")
        ELSE Returns(MarkdownPart(text),
                     [ errors |-> IF loaded THEN Get(parsed, "errors", PyList(<<>>))
                                  ELSE PyList(<<>>),
                       annotatedEssay |-> IF loaded
                                          THEN Get(parsed, "annotated_essay", PyNull)
                                          ELSE PyNull,
                       revisedScore |-> IF loaded
                                        THEN Get(parsed, "revised_score", PyNull)
                                        ELSE PyNull,
                       originalScore |-> originalScore ])

\* ------------------------------------------------------------------ interpreter: the texts

\* The score each narrative line states.
NarrativeScore(key) ==
    CASE key = "task_achievement" -> <<"6",".","5">>
      [] key = "cohesion_coherence" -> <<"6">>
      [] key = "lexical_resource" -> <<"7",".","0">>
      [] key = "grammatical_range" -> <<"6",".">>

\* One line of the narrative: "<label>: <score>" and a line break.
ScoreLine(key, score) == << ScoreLabel(key), ":", " " >> \o score \o << "\n" >>

RECURSIVE ScoreLines(_, _)
ScoreLines(keys, k) ==
    IF k > Len(ScoreKeys) THEN <<>>
    ELSE (IF ScoreKeys[k] \in keys
          THEN ScoreLine(ScoreKeys[k], NarrativeScore(ScoreKeys[k]))
          ELSE <<>>) \o ScoreLines(keys, k + 1)

Intros == { "none", "word", "indented" }
Intro(kind) ==
    CASE kind = "none" -> <<>>
      [] kind = "word" -> << "Report", "\n" >>
      [] kind = "indented" -> << " ", "Report", "\n" >>

\* The block of the text: none, an opening marker that no fence closes, or
\* a fenced block around the content named.
Contents ==
    DocNames \cup { "nothing", "blank", "invalid", "number" }
Blocks == { "none", "unclosed" } \cup Contents
Content(kind) ==
    CASE kind = "nothing" -> <<>>
      [] kind = "blank" -> << "\n", " ", "\n" >>
      [] kind = "invalid" -> << "\n", "{", "oops", "\n" >>
      [] kind = "number" -> << "\n", "6", ".", "5", "\n" >>
      [] OTHER -> << "\n", kind, "\n" >>
Block(kind) ==
    CASE kind = "none" -> <<>>
      [] kind = "unclosed" -> OpenMarker \o << "\n", "<json:full>" >>
      [] OTHER -> OpenMarker \o Content(kind) \o Fence

\* What follows the block: nothing, words, a score line, a second block,
\* an overall the report states.
Tails == { "none", "words", "score", "block", "overall" }
TailText(kind) ==
    CASE kind = "none" -> <<>>
      [] kind = "words" -> << "\n", "Thanks", "\n" >>
      [] kind = "score" -> << "\n" >> \o ScoreLine("task_achievement", <<"5">>)
      [] kind = "block" -> << "\n" >> \o Block("<json:array>")
      [] kind = "overall" -> << "\n", "Overall Band Score", ":", " ", "9", "\n" >>

\* The ingredients of a raw text, and the text they make.
Docs ==
    [ intro : Intros,
      lines : SUBSET { ScoreKeys[k] : k \in 1..Len(ScoreKeys) },
      block : Blocks,
      tail : Tails ]

Render(d) ==
    Intro(d.intro) \o ScoreLines(d.lines, 1) \o Block(d.block) \o TailText(d.tail)

Pending == [ kind |-> "pending", markdown_part |-> <<>>, data |-> DefaultData,
             error |-> "" ]

InitInterpret ==
    /\ InitDispatch
    /\ ALL_KEYS = <<>>
    /\ InitSelectIdle
    /\ InitAppIdle
    /\ doc \in Docs
    /\ full_text = Render(doc)
    /\ report = Pending
    /\ scores = <<>>
    /\ overall = None

\* ------------------------------------------------------------------ rendering

\* How a pass ends: it completes, or an exception leaves it.
Completed == [kind |-> "ok", error |-> ""]
Failed(error) == [kind |-> "raise", error |-> error]

\* Python's truth of a list or a dict: not None and not empty.
NonEmpty(v) ==
    \/ v.t = "array" /\ Len(v.fields) > 0
    \/ v.t = "object" /\ DOMAIN v.fields # {}

\* e.get('category') in ['Grammar', 'Vocabulary']
IsMicro(err) ==
    /\ "category" \in DOMAIN err.fields
    /\ err.fields["category"] \in { PyStr(<<"Grammar">>), PyStr(<<"Vocabulary">>) }

\* One Grammar & Vocabulary card: err.get('impact_level', 'Low').upper(),
\* then err['type'], err['original'], err['correction'], err['explanation']
\* in the f-string.  "" when the card is shown, else the exception.
MicroCard(err) ==
    IF Get(err, "impact_level", PyStr(<<"Low">>)).t # "string" THEN "AttributeError"
    ELSE IF { "type", "original", "correction", "explanation" } \subseteq DOMAIN err.fields
    THEN ""
    ELSE "KeyError"

\* create_docx, 3. ERRORS: err['category'], err['type'], err['original'],
\* err['correction'], err['explanation'] of every error.
DocxErrorLine(err) ==
    IF { "category", "type", "original", "correction", "explanation" }
           \subseteq DOMAIN err.fields
    THEN ""
    ELSE "KeyError"

\* str.replace('-', '0')
ReplaceDash(t) == [k \in 1..Len(t) |-> IF t[k] = "-" THEN "0" ELSE t[k]]

\* float(str(scores.get('overall', 0)).replace('-', '0')) >= 8.5
RevisedHeader(revised) ==
    IF IsDecimalText(ReplaceDash(Str(Get(revised, "overall", PyNum(<<"0">>)))))
    THEN ""
    ELSE "ValueError"

\* The first exception of the steps, "" when none raises.
RECURSIVE FirstError(_)
FirstError(results) ==
    IF results = <<>> THEN ""
    ELSE IF results[1] # "" THEN results[1]
    ELSE FirstError(Tail(results))

\* The pass of the message loop over an ai message with this data: the
\* error cards, the annotated essay, the revised score and, under it, the
\* exports.
RenderAssistantMessage(data) ==
    LET cards ==
            IF NonEmpty(data.errors)
            THEN [k \in 1..Len(data.errors.fields) |->
                     IF IsMicro(data.errors.fields[k])
                     THEN MicroCard(data.errors.fields[k]) ELSE ""]
            ELSE <<>>
        revised ==
            IF NonEmpty(data.revisedScore)
            THEN << RevisedHeader(data.revisedScore) >>
                 \o (IF NonEmpty(data.errors)
                     THEN [k \in 1..Len(data.errors.fields) |->
                              DocxErrorLine(data.errors.fields[k])]
                     ELSE <<>>)
            ELSE <<>>
        error == FirstError(cards \o revised)
    IN  IF error = "" THEN Completed ELSE Failed(error)

\* for msg in st.session_state.messages: the ai message holding the report.
RenderReport ==
    /\ report.kind = "return"
    /\ rendered = <<>>
    /\ rendered' = RenderAssistantMessage(report.data)
    /\ UNCHANGED << dispatchVars, selectVars, interpretVars, generation_config,
                    sessionVars >>

\* markdown_text, parsed_data = process_response(full_text)
ProcessResponse ==
    /\ report.kind = "pending"
    /\ report' = process_response(full_text)
    /\ UNCHANGED << dispatchVars, selectVars, doc, full_text, scores, overall,
                    appVars >>

SpecInterpret == InitInterpret /\ [][ProcessResponse \/ RenderReport]_vars

\* ------------------------------------------------------------------ interpreter: the score lists

\* The band scores a list holds run from 5 up to TopBand, in halves.
TopBand == 7

BandTexts ==
    { IntText(b) : b \in 5..TopBand }
        \cup { IntText(b) \o <<".","5">> : b \in 5..(TopBand - 1) }

\* The entries of found_scores: a captured text, or a value of the block.
ScoreEntries ==
    { PyStr(t) : t \in BandTexts }
        \cup { PyNum(<<"8",".","5">>), PyNull, PyStr(<<"N","/","A">>) }

\* The longest list of scores.
MaxScores == 4

ScoreLists == UNION { [1..n -> ScoreEntries] : n \in 1..MaxScores }

InitOverall ==
    /\ InitDispatch
    /\ ALL_KEYS = <<>>
    /\ InitSelectIdle
    /\ InitAppIdle
    /\ doc = <<>>
    /\ full_text = <<>>
    /\ report = <<>>
    /\ scores \in ScoreLists
    /\ overall = None

\* data["originalScore"]["overall"] = calculate_overall(found_scores)
CalculateOverall ==
    /\ overall = None
    /\ overall' = calculate_overall(scores)
    /\ UNCHANGED << dispatchVars, selectVars, doc, full_text, report, scores,
                    appVars >>

SpecOverall == InitOverall /\ [][CalculateOverall]_vars

\* ------------------------------------------------------------------ interpreter: the band scores

\* The highest band of the scale.
MaxBand == 9

\* The band scores from 0 to MaxBand in halves, as texts.
AllBandTexts ==
    { IntText(b) : b \in 0..MaxBand }
        \cup { IntText(b) \o <<".","5">> : b \in 0..(MaxBand - 1) }

\* found_scores with a band score for each of the four criteria.
InitBands ==
    /\ InitDispatch
    /\ ALL_KEYS = <<>>
    /\ InitSelectIdle
    /\ InitAppIdle
    /\ doc = <<>>
    /\ full_text = <<>>
    /\ report = <<>>
    /\ scores \in [1..Len(ScoreKeys) -> { PyStr(t) : t \in AllBandTexts }]
    /\ overall = None

SpecBands == InitBands /\ [][CalculateOverall]_vars

\* ------------------------------------------------------------------ session

\* The welcome message: role ai, no data.
WelcomeMessage ==
    [ role |-> "ai", content |-> <<"Welcome">>, topic |-> <<>>, image |-> None,
      data |-> PyNull, model_version |-> None, submission |-> 0 ]

\* {"role": "user", "content": essay_input, "topic": topic_input,
\*  "image": uploaded_file}
UserMessage(essay, topic, image, n) ==
    [ role |-> "user", content |-> essay, topic |-> topic, image |-> image,
      data |-> PyNull, model_version |-> None, submission |-> n ]

\* {"role": "ai", "content": markdown_text, "data": parsed_data,
\*  "model_version": used_model}
AiMessage(markdown_text, parsed_data, used_model, n) ==
    [ role |-> "ai", content |-> markdown_text, topic |-> <<>>, image |-> None,
      data |-> parsed_data, model_version |-> used_model, submission |-> n ]

\* The shortest essay the validation lets through.
MinEssayLength == 10

\* The session counts at most this many valid submissions.
MaxSubmissions == 2

\* What the user may have typed and uploaded when the button is pressed.
Topics == { <<>>, <<" ">>, <<"Q", "?">> }
Files == { None, <<"chart.png">> }
Essays ==
    LET word(n) == [k \in 1..n |-> "a"]
    IN  { <<>>, word(MinEssayLength - 1), word(MinEssayLength),
          <<" ">> \o word(MinEssayLength - 1) \o <<" ">>,
          <<" ">> \o word(MinEssayLength) \o <<"\n">> }

\* Variant: the essay is measured without .strip().
ValidUntrimmed(topic, file, essay) ==
    /\ Strip(topic) # <<>>
    /\ file # None
    /\ Len(essay) >= MinEssayLength

\* VALIDATION: none of the three warnings applies.
Valid(topic, file, essay) ==
    /\ Strip(topic) # <<>>
    /\ file # None
    /\ ~(Strip(essay) = <<>> \/ Len(Strip(essay)) < MinEssayLength)

\* response.text of the responses the session receives: a report with a
\* full block, one without a block, one whose block is not valid JSON, and
\* one whose block is a JSON array.
Replies ==
    { [intro |-> "word", lines |-> {"task_achievement"}, block |-> b, tail |-> "none"] :
        b \in { "<json:full>", "none", "invalid", "<json:array>" } }

\* What a handler leaves in the history: its kind and the session it found.
Event(kind) ==
    [ kind |-> kind, messages |-> messages, submitted |-> submitted,
      calls |-> calls["A"], report |-> report ]

\* The secret stores of the sessions: none, one credential, two.
SessionKeys == { <<>>, <<"key1">>, <<"key1", "key2">> }

\* A fresh session: submitted and messages get their first values.
InitSession ==
    /\ InitDispatch
    /\ ALL_KEYS \in SessionKeys
    /\ InitSelectIdle
    /\ InitInterpretIdle
    /\ generation_config = <<>>
    /\ rendered = <<>>
    /\ messages = << WelcomeMessage >>
    /\ submitted = FALSE
    /\ topic_input = <<>>
    /\ uploaded_file = None
    /\ essay_input = <<>>
    /\ stage = "idle"
    /\ event = [ kind |-> "none", messages |-> <<>>, submitted |-> FALSE,
                 calls |-> <<>>, report |-> Pending ]
    /\ submissions = 0

\* Variant: Clear Session empties messages and leaves submitted as it is.
ClearSessionKeepsSubmitted ==
    /\ stage = "idle"
    /\ messages' = <<>>
    /\ submitted' = submitted
    /\ event' = Event("cleared")
    /\ UNCHANGED << dispatchVars, selectVars, interpretVars, generation_config,
                    rendered, topic_input, uploaded_file, essay_input, stage,
                    submissions >>

\* Variant: Clear Session puts the welcome message back.
ClearSessionShowsWelcome ==
    /\ stage = "idle"
    /\ messages' = << WelcomeMessage >>
    /\ submitted' = FALSE
    /\ event' = Event("cleared")
    /\ UNCHANGED << dispatchVars, selectVars, interpretVars, generation_config,
                    rendered, topic_input, uploaded_file, essay_input, stage,
                    submissions >>

\* if st.button("Clear Session"): messages = []; submitted = False; rerun.
ClearSession ==
    /\ stage = "idle"
    /\ messages' = <<>>
    /\ submitted' = FALSE
    /\ event' = Event("cleared")
    /\ UNCHANGED << dispatchVars, selectVars, interpretVars, generation_config,
                    rendered, topic_input, uploaded_file, essay_input, stage,
                    submissions >>

\* if not submitted: ... if submit_btn: the validation; for a valid
\* submission Image.open(uploaded_file) (which raises for a file that is no
\* image: the except branch shows the error) and the call of
\* generate_content_with_failover.
SubmitPressed(topic, file, essay) ==
    /\ stage = "idle"
    /\ ~submitted
    /\ submissions < MaxSubmissions
    /\ topic_input' = topic
    /\ uploaded_file' = file
    /\ essay_input' = essay
    /\ event' = Event("pressed")
    /\ \/ /\ ~Valid(topic, file, essay)
          /\ UNCHANGED << dispatchVars, stage, submissions, report >>
       \/ /\ Valid(topic, file, essay)
          /\ UNCHANGED << dispatchVars, stage, submissions, report >>
       \/ /\ Valid(topic, file, essay)
          /\ StartCall("A")
          /\ stage' = "dispatching"
          /\ submissions' = submissions + 1
          /\ report' = Pending
    /\ UNCHANGED << selectVars, doc, full_text, scores, overall,
                    generation_config, rendered, messages, submitted >>

\* The steps of generate_content_with_failover inside the handler.
Dispatching ==
    /\ stage = "dispatching"
    /\ Run("A", ConcCatalogue, ConcErrorTexts)

\* if response: process_response(response.text), the two appends,
\* submitted = True, st.rerun(); an exception on the way is caught by
\* `except Exception` and shown.
SubmitFinish ==
    /\ stage = "dispatching"
    /\ pc["A"] = "done"
    /\ stage' = "idle"
    /\ event' = Event("finished")
    /\ IF ret["A"].response # None
       THEN \E reply \in Replies :
                /\ doc' = reply
                /\ full_text' = Render(reply)
                /\ report' = process_response(Render(reply))
                /\ IF report'.kind = "return"
                   THEN /\ messages' =
                               messages
                                 \o << UserMessage(essay_input, topic_input,
                                                   uploaded_file, submissions),
                                       AiMessage(report'.markdown_part, report'.data,
                                                 ret["A"].model, submissions) >>
                        /\ submitted' = TRUE
                   ELSE UNCHANGED << messages, submitted >>
       ELSE UNCHANGED << doc, full_text, report, messages, submitted >>
    /\ UNCHANGED << dispatchVars, selectVars, scores, overall, generation_config,
                    rendered, topic_input, uploaded_file, essay_input, submissions >>

NextSession ==
    \/ ClearSession
    \/ \E topic \in Topics, file \in Files, essay \in Essays :
           SubmitPressed(topic, file, essay)
    \/ Dispatching
    \/ SubmitFinish

SpecSession == InitSession /\ [][NextSession]_vars

\* ------------------------------------------------------------------ properties

\* The error texts that are quota-style by reading them: the text holds
\* "429", or "quota" or "limit" in any letter case.
QuotaStyle == {Err429, ErrQuota, ErrLimit}

\* How often x occurs in the sequence s.
Count(s, x) == Cardinality({ k \in DOMAIN s : s[k] = x })

\* The attempts 1..k-1 of invocation i all failed with a quota-style error.
EarlierAllQuota(i, k) ==
    \A j \in 1..(k - 1) :
        /\ ~outcomes[i][j].ok
        /\ outcomes[i][j].text \in QuotaStyle

\* The list_models() calls invocation i has made, in order.
ListCalls(i) == SelectSeq(calls[i], LAMBDA c : c.op = "list_models")

\* The failure result: None, None returned and the message shown.
FailureResult(i) ==
    /\ pc[i] = "done"
    /\ ret[i] = ReturnValue(None, None)
    /\ st_error[i].shown

\* C1: when the k-th attempt succeeds and the k-1 attempts before it failed
\* with quota-style errors, the invocation has returned the response with
\* the model selected from the k-th credential's listing, has configured
\* exactly the first k keys of its order, and has attempted nothing more.
C1_SuccessAtKth ==
    \A i \in Threads : \A k \in 1..Len(outcomes[i]) :
        (outcomes[i][k].ok /\ EarlierAllQuota(i, k)) =>
            /\ pc[i] = "done"
            /\ ret[i].kind = "return"
            /\ ret[i].response = Response
            /\ Len(ListCalls(i)) = k
            /\ ret[i].model = SelectModel(AvailableModels(ListCalls(i)[k].answer))
            /\ tried[i] = SubSeq(keys_to_try[i], 1, k)
            /\ Len(outcomes[i]) = k
            /\ ~st_error[i].shown

\* C1 witness: a success at the second key after a quota-style failure.
C1_Witness ==
    /\ Len(outcomes["A"]) = 2
    /\ ~outcomes["A"][1].ok
    /\ outcomes["A"][1].text = ErrQuota
    /\ outcomes["A"][2].ok
    /\ ret["A"].model = Gemini3FlashPreview

\* Every attempt of invocation i failed with a quota-style error, and there
\* were as many attempts as keys.
AllKeysQuota(i) ==
    /\ pc[i] # "idle"
    /\ Len(outcomes[i]) = Len(keys_to_try[i])
    /\ \A j \in 1..Len(outcomes[i]) :
           ~outcomes[i][j].ok /\ outcomes[i][j].text \in QuotaStyle

\* C2: when all N keys fail with quota-style errors, each of the N keys was
\* attempted once, in order, nothing is in progress, and the invocation ends
\* with the failure result and a reported count of N.
C2_AllQuotaFailsAfterN ==
    \A i \in Threads :
        AllKeysQuota(i) =>
            /\ tried[i] = keys_to_try[i]
            /\ Len(ListCalls(i)) = Len(ALL_KEYS)
            /\ pc[i] \in {"loop", "report", "done"}
            /\ (pc[i] = "done" =>
                   /\ FailureResult(i)
                   /\ st_error[i].count = Len(ALL_KEYS))

\* C2 witness: two keys, both failed with quota-style errors, result out.
C2_Witness ==
    /\ Len(ALL_KEYS) = 2
    /\ AllKeysQuota("A")
    /\ FailureResult("A")

\* C3: once an attempt has failed with an error that is not quota-style, it
\* is the last attempt: no later key is configured, no later call is made,
\* and the invocation ends with the failure result.
C3_NonQuotaStops ==
    \A i \in Threads : \A k \in 1..Len(outcomes[i]) :
        (~outcomes[i][k].ok /\ outcomes[i][k].text \notin QuotaStyle) =>
            /\ Len(outcomes[i]) = k
            /\ Len(tried[i]) = k
            /\ Len(ListCalls(i)) = k
            /\ calls[i][Len(calls[i])].own = tried[i][k]
            /\ pc[i] \in {"report", "done"}
            /\ (pc[i] = "done" => FailureResult(i))

\* C3 witness: a non-quota error on the first of two keys, result out.
C3_Witness ==
    /\ Len(keys_to_try["A"]) = 2
    /\ Len(outcomes["A"]) = 1
    /\ outcomes["A"][1].text = ErrDenied
    /\ FailureResult("A")

\* C4: the count the failure message reports is the number of keys that
\* were attempted.
C4_ReportedCountIsAttempted ==
    \A i \in Threads :
        st_error[i].shown => st_error[i].count = Len(tried[i])

\* C5: the error text of the failure message is the text of the error the
\* last attempt raised.
C5_ReportsLastError ==
    \A i \in Threads :
        (st_error[i].shown /\ Len(outcomes[i]) > 0) =>
            /\ ~outcomes[i][Len(outcomes[i])].ok
            /\ st_error[i].last = outcomes[i][Len(outcomes[i])].text

\* C5 witness: two attempts failed with different texts, message shown.
C5_Witness ==
    /\ st_error["A"].shown
    /\ Len(outcomes["A"]) = 2
    /\ outcomes["A"][1].text = Err429
    /\ outcomes["A"][2].text = ErrDenied

\* C6: an error raised by an attempt never leaves the invocation as an
\* exception: the invocation goes on to the next key, or is about to report,
\* or has returned None, None.
C6_NoExceptionEscapes ==
    \A i \in Threads :
        /\ ret[i].kind # "raise"
        /\ (Len(outcomes[i]) > 0 /\ ~outcomes[i][Len(outcomes[i])].ok) =>
               \/ pc[i] \in {"loop", "list", "generate", "report"}
               \/ FailureResult(i)

\* C6 witness: list_models() raised a non-quota error and generate_content()
\* never ran; the invocation returned the failure result.
C6_Witness ==
    /\ Len(outcomes["A"]) = 1
    /\ outcomes["A"][1].text = ErrEmpty
    /\ Len(calls["A"]) = 1
    /\ FailureResult("A")

\* C7: one pass over the keys -- no key is attempted more often than it is
\* configured, at most N attempts are made -- and a call that has started
\* ends with a returned value.
C7_SinglePassTerminates ==
    /\ [](\A i \in Threads :
             /\ Len(tried[i]) <= Len(ALL_KEYS)
             /\ \A key \in KeyPool : Count(tried[i], key) <= Count(ALL_KEYS, key))
    /\ \A i \in Threads :
           (pc[i] \notin {"idle", "done"}) ~> (pc[i] = "done" /\ ret[i].kind = "return")

\* C7 witness: both of two keys were attempted and the call has returned.
C7_Witness ==
    /\ Len(ALL_KEYS) = 2
    /\ Len(tried["A"]) = 2
    /\ pc["A"] = "done"
    /\ ret["A"].kind = "return"

\* C8: every outbound call of an invocation goes out with the key that this
\* invocation is attempting.
C8_CallsUseOwnKey ==
    \A i \in Threads : \A k \in DOMAIN calls[i] :
        calls[i][k].key = calls[i][k].own

\* The sequence a is a rearrangement of the sequence b.
IsPermutation(a, b) ==
    /\ Len(a) = Len(b)
    /\ \A key \in KeyPool : Count(a, key) = Count(b, key)

\* C9: ALL_KEYS never changes, and the order an invocation traverses is a
\* rearrangement of ALL_KEYS.
C9_KeysReadOnly ==
    /\ [][ALL_KEYS' = ALL_KEYS]_vars
    /\ [](\A i \in Threads :
             pc[i] # "idle" => IsPermutation(keys_to_try[i], ALL_KEYS))

\* C9 witness: an invocation that traversed the keys in another order than
\* ALL_KEYS lists them, and has ended.
C9_Witness ==
    /\ pc["A"] = "done"
    /\ Len(tried["A"]) = 2
    /\ keys_to_try["A"] # ALL_KEYS

\* The ranks of the priority list that occur in an available name.
Matches(available) ==
    { r \in 1..Len(model_priority) :
        \E m_name \in available : Contains(model_priority[r], m_name) }

\* C10: the selected model is the entry of lowest rank number among those
\* that are a substring of an available name, and "gemini-1.5-flash" when
\* there is none.
C10_SelectsHighestRanked ==
    selected # None =>
        IF Matches(available_models) = {}
        THEN selected = Gemini15Flash
        ELSE \E r \in Matches(available_models) :
                 /\ selected = model_priority[r]
                 /\ \A q \in Matches(available_models) : r <= q

\* C10 witness: several entries match, none of them by an exact name, and a
\* model that cannot generate content is listed.
C10_Witness ==
    /\ selected = Gemini25Flash
    /\ Cardinality(Matches(available_models)) >= 3
    /\ Name25Flash \notin available_models
    /\ \E m \in listed : m.name \notin available_models

\* ------------------------------------------------------------------ properties: the interpreter

\* str.rstrip(): only the end of the text is trimmed.
RStrip(s) ==
    LET keep == { k \in 1..Len(s) : ~IsSpace(s[k]) }
    IN  IF keep = {} THEN <<>> ELSE SubSeq(s, 1, SetMax(keep))

Returned == report.kind = "return"

\* The content of the first fenced block of the text (an opening marker
\* that three backticks follow), "none" without one.  The backticks of a
\* second opening marker close a marker left open before it.
FirstBlock ==
    IF doc.block \in Contents THEN doc.block
    ELSE IF doc.tail # "block" THEN "none"
    ELSE IF doc.block = "unclosed" THEN "<json:full>"
    ELSE "<json:array>"

HasFencedBlock == FirstBlock # "none"

\* The text before the first opening marker.
BeforeMarker ==
    Intro(doc.intro) \o ScoreLines(doc.lines, 1)
        \o (IF doc.block = "none" THEN << "\n" >> ELSE <<>>)

Criteria == { ScoreKeys[k] : k \in 1..Len(ScoreKeys) }

\* The returned narrative has a score line for the criterion, and the score
\* its first such line states.
NarrativeGives(key) ==
    \E k \in 1..Len(report.markdown_part) : report.markdown_part[k] = ScoreLabel(key)
StatedScore(key) == IF key \in doc.lines THEN NarrativeScore(key) ELSE <<"5">>

SubScore(key) == report.data.originalScore[key]

StructuredFieldsDefault ==
    /\ report.data.errors = PyList(<<>>)
    /\ report.data.annotatedEssay = PyNull
    /\ report.data.revisedScore = PyNull

\* C11: process_response never raises, whatever the raw text: every call
\* comes to a returned (narrative, data) pair.
C11_NeverRaises == report.kind # "raise"

\* C12: process_response("") returns the empty narrative, no errors, no
\* annotated essay, no revised score, and "-" for the four sub-scores and
\* the overall.
C12_EmptyTextAllDefault ==
    (full_text = <<>> /\ report.kind # "pending") =>
        /\ Returned
        /\ report.markdown_part = <<>>
        /\ StructuredFieldsDefault
        /\ \A key \in Criteria \cup {"overall"} : SubScore(key) = Dash

C12_Witness == full_text = <<>> /\ Returned

\* C13 as stated: without a fenced block the narrative is the full text and
\* every structured field is at its default, the sub-scores and the overall
\* included.
C13_NoBlockAllDefault ==
    (~HasFencedBlock /\ report.kind # "pending") =>
        /\ Returned
        /\ report.markdown_part = full_text
        /\ StructuredFieldsDefault
        /\ \A key \in Criteria \cup {"overall"} : SubScore(key) = Dash

\* C13 amended: without a fenced block the narrative is the full text,
\* errors is empty, annotatedEssay and revisedScore are absent, and each
\* sub-score is what the text's score line for the criterion states, "-"
\* without such a line; the overall is "-" unless all four lines are there.
C13_NoBlockScoresFromText ==
    (~HasFencedBlock /\ report.kind # "pending") =>
        /\ Returned
        /\ report.markdown_part = full_text
        /\ StructuredFieldsDefault
        /\ \A key \in Criteria :
             SubScore(key) = IF NarrativeGives(key) THEN StatedScore(key) ELSE Dash
        /\ SubScore("overall") # Dash <=> \A key \in Criteria : NarrativeGives(key)

C13_Witness ==
    /\ ~HasFencedBlock
    /\ Returned
    /\ doc.block = "unclosed"
    /\ SubScore("task_achievement") = <<"6",".","5">>
    /\ SubScore("cohesion_coherence") = Dash

\* C14: with a fenced block in the text, whatever it encloses, the
\* narrative is the text before the opening marker without its trailing
\* white space.
C14_NarrativeIsTextBeforeMarker ==
    (HasFencedBlock /\ Returned) => report.markdown_part = RStrip(BeforeMarker)

\* C15: when the content of the fenced block is not valid JSON, the call
\* returns the narrative (the text before the opening marker, white space
\* at its ends aside), errors is empty, annotatedEssay and revisedScore are
\* absent, and each sub-score is what the narrative's score line states,
\* "-" without such a line.
C15_UnparsableBlock ==
    (FirstBlock = "invalid" /\ report.kind # "pending") =>
        /\ Returned
        /\ report.markdown_part = Strip(BeforeMarker)
        /\ StructuredFieldsDefault
        /\ \A key \in Criteria :
             SubScore(key) = IF key \in doc.lines THEN NarrativeScore(key) ELSE Dash

C15_Witness ==
    /\ FirstBlock = "invalid"
    /\ Returned
    /\ doc.tail = "score"
    /\ doc.lines = {"lexical_resource"}
    /\ SubScore("lexical_resource") = <<"7",".","0">>
    /\ SubScore("task_achievement") = Dash

\* The block parsed to an object whose original_score is an object.
BlockScores ==
    IF FirstBlock \in DocNames /\ JsonDocument(FirstBlock).t = "object"
    THEN Get(JsonDocument(FirstBlock), "original_score", PyDict(<<>>))
    ELSE PyNull

\* C16: in a returned report, a criterion the narrative has a score line
\* for takes the score of that line, whatever the block says; a criterion
\* the narrative does not give takes the block's original_score entry when
\* the block parsed, and is "-" when it did not.
C16_NarrativeBeforeBlock ==
    Returned =>
        \A key \in Criteria :
            /\ NarrativeGives(key) => SubScore(key) = StatedScore(key)
            /\ (~NarrativeGives(key) /\ BlockScores.t # "object")
                   => SubScore(key) = Dash
            /\ (~NarrativeGives(key) /\ BlockScores.t = "object"
                   /\ key \in DOMAIN BlockScores.fields)
                   => SubScore(key) = Str(BlockScores.fields[key])

C16_Witness ==
    /\ Returned
    /\ FirstBlock = "<json:full>"
    /\ doc.lines = {"task_achievement"}
    /\ SubScore("task_achievement") = <<"6",".","5">>
    /\ SubScore("cohesion_coherence") = <<"8">>

\* C17: in a returned report each of the four sub-scores is a numeric
\* string or "-".
C17_SubScoresNumericOrDash ==
    Returned => \A key \in Criteria : SubScore(key) = Dash \/ IsDecimalText(SubScore(key))

FourNumbers == Len(scores) = 4 /\ \A k \in 1..4 : FloatOk(scores[k])
SumOfFour ==
    Hundredths(scores[1].text) + Hundredths(scores[2].text)
        + Hundredths(scores[3].text) + Hundredths(scores[4].text)
WholePart == SumOfFour \div 400
Fraction400 == SumOfFour % 400

Six == PyStr(<<"6">>)
Seven == PyStr(<<"7">>)

\* C19: for four numeric sub-scores calculate_overall gives the average
\* rounded by the band rule: w below a fractional part of 0.25, w + 0.5
\* from 0.25 to below 0.75, w + 1 from 0.75; [6,6,7,7] gives 6.5 and
\* [6,7,7,7] gives 7.0.
C19_BandRounding ==
    (FourNumbers /\ overall # None) =>
        /\ IsDecimalText(overall)
        /\ Hundredths(overall) =
              IF Fraction400 < 100 THEN 100 * WholePart
              ELSE IF Fraction400 < 300 THEN 100 * WholePart + 50
              ELSE 100 * (WholePart + 1)
        /\ scores = << Six, Six, Seven, Seven >> => overall = <<"6",".","5">>
        /\ scores = << Six, Seven, Seven, Seven >> => overall = <<"7",".","0">>

C19_Witness ==
    /\ scores = << Six, Seven, Seven, Seven >>
    /\ overall = <<"7",".","0">>

\* C20 as stated: [6.0, 6.0, 6.0, 7.0], average 6.25, gives 6.0.
C20_QuarterRoundsDown ==
    (scores = << Six, Six, Six, Seven >> /\ overall # None) =>
        IsDecimalText(overall) /\ Hundredths(overall) = 600

\* C20 amended: four sub-scores whose average has a fractional part of
\* exactly 0.25 round up to the half: [6.0, 6.0, 6.0, 7.0] gives 6.5.
C20_QuarterRoundsToHalf ==
    (FourNumbers /\ Fraction400 = 100 /\ overall # None) =>
        /\ overall = IntText(WholePart) \o <<".","5">>
        /\ scores = << Six, Six, Six, Seven >> => overall = <<"6",".","5">>

C20_Witness ==
    /\ scores = << Six, Six, Six, Seven >>
    /\ overall = <<"6",".","5">>

\* ------------------------------------------------------------------ properties: selection, calls, bands

\* "models/"
ModelsPrefix == <<"m","o","d","e","l","s","/">>

\* The listing holds a model of exactly this identifier that supports
\* generateContent.
Exposes(listing, id) ==
    \E x \in listing :
        /\ "generateContent" \in x.supported_generation_methods
        /\ x.name = id \/ x.name = ModelsPrefix \o id

\* C23: a selected model that is not the fallback is a model the listing
\* exposes under exactly that identifier; an exposed identifier that only
\* extends a higher-ranked entry does not get that entry selected.
C23_SelectedIsExposed ==
    (selected # None /\ selected # FallbackModel) => Exposes(listed, selected)

\* The calls of invocation i between positions a and b.
CallOps(i) == [k \in 1..Len(calls[i]) |-> calls[i][k].op]

\* Invocation i is between two attempts or past the last one.
BetweenAttempts(i) == pc[i] \in {"loop", "report", "done"}

BandValues == { Hundredths(scores[k].text) : k \in 1..Len(scores) }

\* C30: for four sub-scores that are multiples of 0.5 between 0 and 9,
\* calculate_overall returns a multiple of 0.5 that is neither below the
\* smallest nor above the largest of them.
C30_OverallWithinRange ==
    (overall # None /\ Len(scores) = 4
       /\ \A k \in 1..4 : scores[k].t = "string" /\ scores[k].text \in AllBandTexts) =>
        /\ IsDecimalText(overall)
        /\ Hundredths(overall) % 50 = 0
        /\ Hundredths(overall) >= SetMin(BandValues)
        /\ Hundredths(overall) <= SetMax(BandValues)

C30_Witness ==
    /\ scores = << PyStr(<<"8",".","5">>), PyStr(<<"9">>), PyStr(<<"9">>), PyStr(<<"9">>) >>
    /\ overall = <<"9",".","0">>

\* ------------------------------------------------------------------ properties: overall and rendering

\* The sub-scores of the report that are numbers, and their sum in
\* hundredths.
NumericCriteria == { key \in Criteria : IsDecimalText(SubScore(key)) }
SubScoreValue(key) == IF key \in NumericCriteria THEN Hundredths(SubScore(key)) ELSE 0
SubScoreSum ==
    SubScoreValue("task_achievement") + SubScoreValue("cohesion_coherence")
        + SubScoreValue("lexical_resource") + SubScoreValue("grammatical_range")

\* C21: the overall of a returned report is a function of its four
\* sub-scores alone -- "-" with fewer than four numbers, else their
\* average on the half-band grid -- so two texts with the same sub-scores
\* get the same overall, whatever overall the texts state themselves.
C21_OverallFromSubScoresOnly ==
    Returned =>
        IF Cardinality(NumericCriteria) < 4 THEN SubScore("overall") = Dash
        ELSE /\ IsDecimalText(SubScore("overall"))
             /\ Hundredths(SubScore("overall")) =
                    IF SubScoreSum % 400 < 100 THEN 100 * (SubScoreSum \div 400)
                    ELSE IF SubScoreSum % 400 < 300
                    THEN 100 * (SubScoreSum \div 400) + 50
                    ELSE 100 * (SubScoreSum \div 400 + 1)

\* C21 witness: the block states an overall of 9 next to sub-scores 8, 8,
\* 8.5 and 8, and the report's overall is 8.
C21_Witness ==
    /\ Returned
    /\ FirstBlock = "<json:full>"
    /\ doc.lines = {}
    /\ doc.tail = "overall"
    /\ SubScore("lexical_resource") = <<"8",".","5">>
    /\ SubScore("overall") = <<"8">>

\* C22: the rendering pass over a report process_response returned
\* completes, whatever the report lacks.
C22_RenderingCompletes == rendered # <<>> => rendered.kind = "ok"

\* ------------------------------------------------------------------ properties: generation config

\* The name holds "thinking" in one of the letter cases of NameMarkers.
NamesThinking ==
    \E w \in { <<"t","h","i","n","k","i","n","g">>, <<"T","h","i","n","k","i","n","g">>,
               <<"T","H","I","N","K","I","N","G">> } : Contains(w, selected)

\* C24: the config of the generation call holds thinking_config exactly
\* when the model's name contains "thinking" in any letter case; for every
\* other name it holds temperature, top_p, top_k and max_output_tokens only.
C24_ThinkingConfigIffThinkingName ==
    generation_config # <<>> =>
        DOMAIN generation_config =
            { "temperature", "top_p", "top_k", "max_output_tokens" }
                \cup (IF NamesThinking THEN {"thinking_config"} ELSE {})

\* C24 witness: a name with "Thinking" gets the thinking configuration.
C24_Witness ==
    /\ selected = Gemini20Flash \o <<"-","T","h","i","n","k","i","n","g">>
    /\ generation_config # <<>>
    /\ "thinking_config" \in DOMAIN generation_config

\* ---- the session

\* The places of a text that hold something other than white space, and the
\* length of the text between the first and the last of them.
NonBlank(t) == { k \in 1..Len(t) : ~IsSpace(t[k]) }
TrimmedLength(t) ==
    IF NonBlank(t) = {} THEN 0
    ELSE (CHOOSE k \in NonBlank(t) : \A j \in NonBlank(t) : j <= k)
           - (CHOOSE k \in NonBlank(t) : \A j \in NonBlank(t) : k <= j) + 1

\* The inputs of the last press of the button pass the validation.
PassesValidation ==
    /\ NonBlank(topic_input) # {}
    /\ uploaded_file # None
    /\ TrimmedLength(essay_input) >= MinEssayLength

\* The session is as the last handler found it.
SessionUntouched ==
    /\ messages = event.messages
    /\ submitted = event.submitted

\* C28: generate_content_with_failover runs only for a press of the button
\* made while submitted is false whose inputs pass the validation (prompt not
\* blank, an image uploaded, an essay of at least 10 characters after
\* trimming); a press whose inputs fail it starts no call, makes no outbound
\* call, and leaves messages and submitted as they were.
C28_DispatchOnlyAfterValidation ==
    /\ pc["A"] \notin {"idle", "done"} => stage = "dispatching"
    /\ stage = "dispatching" =>
          /\ PassesValidation
          /\ event.kind = "pressed"
          /\ ~event.submitted
    /\ (event.kind = "pressed" /\ ~PassesValidation) =>
          /\ stage = "idle"
          /\ pc["A"] \in {"idle", "done"}
          /\ calls["A"] = event.calls
          /\ SessionUntouched

\* A press rejected only because the essay is too short once trimmed, in a
\* session that had made outbound calls before.
C28_Witness ==
    /\ event.kind = "pressed"
    /\ NonBlank(topic_input) # {}
    /\ uploaded_file # None
    /\ Len(essay_input) > MinEssayLength
    /\ TrimmedLength(essay_input) = MinEssayLength - 1
    /\ event.calls # <<>>
    /\ calls["A"] = event.calls

\* C26: a valid submission ends in one of two ways.  When the dispatcher
\* returned a response, exactly the user message (essay, topic, image) and
\* then the ai message (narrative, parsed data, model used) are appended and
\* submitted is true.  When it returned none, or something raised on the
\* way, messages and submitted are unchanged and process_response has not
\* run.
C26_TwoOutcomes ==
    /\ event.kind = "finished" =>
          IF ret["A"].response # None
          THEN /\ Len(messages) = Len(event.messages) + 2
               /\ SubSeq(messages, 1, Len(event.messages)) = event.messages
               /\ LET user == messages[Len(messages) - 1]
                      ai == messages[Len(messages)]
                  IN  /\ user.role = "user"
                      /\ user.content = essay_input
                      /\ user.topic = topic_input
                      /\ user.image = uploaded_file
                      /\ ai.role = "ai"
                      /\ report.kind = "return"
                      /\ ai.content = report.markdown_part
                      /\ ai.data = report.data
                      /\ ai.model_version = ret["A"].model
               /\ submitted
          ELSE /\ SessionUntouched
               /\ report = event.report
    /\ (event.kind = "pressed" /\ PassesValidation /\ stage = "idle") =>
          /\ SessionUntouched
          /\ report = event.report

\* The ai messages that carry parsed data, and the user messages.
WithData == { k \in 1..Len(messages) :
                messages[k].role = "ai" /\ messages[k].data # PyNull }
FromUser == { k \in 1..Len(messages) : messages[k].role = "user" }

\* C27: in every session state submitted is true exactly when messages
\* holds an ai message with parsed data; messages holds at most one
\* user/ai pair; and every ai message with parsed data comes right after the
\* user message of the same submission.
C27_SessionInvariants ==
    /\ submitted <=> WithData # {}
    /\ Cardinality(WithData) <= 1
    /\ Cardinality(FromUser) <= 1
    /\ \A k \in WithData :
          /\ k > 1
          /\ messages[k - 1].role = "user"
          /\ messages[k - 1].submission = messages[k].submission

\* A second assessment, made after a Clear Session, is the only pair there.
C27_Witness ==
    /\ submitted
    /\ Len(messages) = 2
    /\ messages[2].submission = 2
    /\ 2 \in WithData

\* C29: Clear Session, whatever the session held, leaves messages empty and
\* submitted false with the input area shown; no step puts the welcome
\* message back, and empty messages stay empty until a submission ends with
\* its two messages appended.
C29_ClearThenEmptyUntilSuccess ==
    [][ /\ event'.kind = "cleared" =>
              /\ messages' = <<>>
              /\ ~submitted'
              /\ stage' = "idle"
        /\ (messages = <<>> /\ messages' # <<>>) =>
              /\ event'.kind = "finished"
              /\ ret["A"].response # None
              /\ Len(messages') = 2
              /\ submitted'
        /\ \A k \in 1..Len(messages') :
              messages'[k] = WelcomeMessage =>
                  k <= Len(messages) /\ messages[k] = WelcomeMessage ]_vars

\* Clear Session pressed on a finished assessment.
C29_Witness ==
    /\ event.kind = "cleared"
    /\ event.submitted
    /\ Len(event.messages) = 3
    /\ messages = <<>>
    /\ ~submitted

====
